---- MODULE Spec2Model ----
(***************************************************************************)
(* Control-props toggle (src/src/exercise/06.js): the useToggle hook, its   *)
(* reducer, its development-time warnings and its prop getters.             *)
(*                                                                          *)
(* JavaScript values are modelled by their printed form ("true", "false",   *)
(* "null", "undefined"), so that truthiness (!x) and nullishness (x != null)*)
(* are computed as the language computes them.                              *)
(*                                                                          *)
(* A hook instance is a record; React's render of the hook is the operator  *)
(* useToggle, which processes the reducer's pending updates, derives `on`,  *)
(* and runs the effects of the warning hooks.  Two instances are driven by  *)
(* the same props and the same calls, one per value of process.env.NODE_ENV *)
(* (line 99), so that the diagnostics block can be compared with its        *)
(* absence.                                                                 *)
(***************************************************************************)
EXTENDS Integers, Sequences, FiniteSets, TLC

VARIABLES inst, lastOp, hist, rcall, owner, app

vars == <<inst, lastOp, hist, rcall, owner, app>>

\* Longest run of toggle() calls that is counted (see hist.toggles).
MaxToggles == 4
\* Most reducer updates that may be pending between two renders.
MaxQueue == 2
\* Most intents given to the pair of instances of SpecOwner.
MaxOwnerSteps == 4
\* Line 179 (and 197): toggles are ignored once timesClicked > 4.
ClickLimit == 4

----------------------------------------------------------------------------
\* JavaScript values and the operators the source applies to them

JsVal == {"undefined", "null", "true", "false"}

Truthy(v) == v = "true"

\* !v
Not(v) == IF Truthy(v) THEN "false" ELSE "true"

\* v != null  (loose inequality: false for null and for undefined)
NotNull_Truthy(v) == Truthy(v)

NotNull(v) == v \notin {"null", "undefined"}

\* a parameter default, `x = d`: applies to undefined only
Default(v, d) == IF v = "undefined" THEN d ELSE v

Env == {"development", "production"}

actionTypes == [toggle |-> "toggle", reset |-> "reset"]

\* warning(condition, message): logs the message when the condition is false
warning(condition, message) == IF condition THEN <<>> ELSE <<message>>

UncontrolledToControlled == "A component is changing an uncontrolled input to be controlled"
ControlledToUncontrolled == "A component is changing a controlled input to be uncontrolled"
ReadOnlyField == "You provided a prop to a form field without an 'onChange' handler"

----------------------------------------------------------------------------
\* callAll(...fns)(...args): the functions that are called, in call order

callAll_FirstOnly(fns) ==
    LET defined == SelectSeq(fns, LAMBDA fn : fn # "undefined")
    IN  IF defined = <<>> THEN <<>> ELSE <<Head(defined)>>

callAll(fns) == SelectSeq(fns, LAMBDA fn : fn # "undefined")

----------------------------------------------------------------------------
\* toggleReducer(state, {type, initialState})

toggleReducer_DefaultReturnsState(state, action) ==
    CASE action.type = actionTypes.toggle ->
            [thrown |-> FALSE, state |-> [on |-> Not(state.on)]]
      [] action.type = actionTypes.reset ->
            [thrown |-> FALSE, state |-> action.initialState]
      [] OTHER ->
            [thrown |-> FALSE, state |-> state]

toggleReducer_ToggleSetsOn(state, action) ==
    CASE action.type = actionTypes.toggle ->
            [thrown |-> FALSE, state |-> [on |-> "true"]]
      [] action.type = actionTypes.reset ->
            [thrown |-> FALSE, state |-> action.initialState]
      [] OTHER ->
            [thrown |-> TRUE, message |-> "Unsupported type"]

toggleReducer(state, action) ==
    CASE action.type = actionTypes.toggle ->
            [thrown |-> FALSE, state |-> [on |-> Not(state.on)]]
      [] action.type = actionTypes.reset ->
            [thrown |-> FALSE, state |-> action.initialState]
      [] OTHER ->
            [thrown |-> TRUE, message |-> "Unsupported type"]

\* React.useReducer: the updates dispatched since the last render are applied
\* in order by the reducer when the hook renders next.
RECURSIVE ProcessUpdates(_, _)
ProcessUpdates(state, queue) ==
    IF queue = <<>> THEN [thrown |-> FALSE, state |-> state]
    ELSE LET r == toggleReducer(state, Head(queue))
         IN  IF r.thrown THEN [thrown |-> TRUE, state |-> state]
             ELSE ProcessUpdates(r.state, Tail(queue))

----------------------------------------------------------------------------
\* The warning hooks.  Each returns the messages its effect logs in this
\* render; an effect runs on mount and whenever one of its dependencies has
\* changed since the previous render.

useControlledSwitchWarning_NoDeps(h, controlledPropValue) ==
    LET isControlled == NotNull(controlledPropValue)
        wasControlled == IF h.mounted THEN h.wasControlled ELSE isControlled
        deps == <<wasControlled, isControlled>>
    IN  [wasControlled |-> wasControlled,
         deps |-> deps,
         logged |-> warning(~(isControlled /\ ~wasControlled), UncontrolledToControlled)
                    \o warning(~(~isControlled /\ wasControlled), ControlledToUncontrolled)]

useControlledSwitchWarning_PreviousMode(h, controlledPropValue) ==
    LET isControlled == NotNull(controlledPropValue)
        wasControlled == IF h.mounted THEN h.onIsControlled ELSE isControlled
        deps == <<wasControlled, isControlled>>
        runs == ~h.mounted \/ deps # h.switchDeps
    IN  [wasControlled |-> wasControlled,
         deps |-> deps,
         logged |-> IF runs
                    THEN warning(~(isControlled /\ ~wasControlled), UncontrolledToControlled)
                         \o warning(~(~isControlled /\ wasControlled), ControlledToUncontrolled)
                    ELSE <<>>]

useControlledSwitchWarning(h, controlledPropValue) ==
    LET isControlled == NotNull(controlledPropValue)
        wasControlled == IF h.mounted THEN h.wasControlled ELSE isControlled
        deps == <<wasControlled, isControlled>>
        runs == ~h.mounted \/ deps # h.switchDeps
    IN  [wasControlled |-> wasControlled,
         deps |-> deps,
         logged |-> IF runs
                    THEN warning(~(isControlled /\ ~wasControlled), UncontrolledToControlled)
                         \o warning(~(~isControlled /\ wasControlled), ControlledToUncontrolled)
                    ELSE <<>>]

useReadOnlyWarning(h, controlPropValue, controlPropName, onChange, readOnly) ==
    LET isControlled == NotNull(controlPropValue)
        hasOnChange == onChange
        deps == <<isControlled, hasOnChange, readOnly, controlPropName>>
        runs == ~h.mounted \/ deps # h.readOnlyDeps
    IN  [deps |-> deps,
         logged |-> IF runs
                    THEN warning(isControlled /\ ~hasOnChange /\ ~readOnly, ReadOnlyField)
                    ELSE <<>>]

\* Lines 99-104: the diagnostics of one render; nothing when NODE_ENV is
\* "production".
DiagnosticsBlock_Throws(h, p, env) ==
    IF env # "production"
    THEN LET sw == useControlledSwitchWarning(h, p.on)
             ro == useReadOnlyWarning(h, p.on, "on", p.onChange, p.readOnly)
         IN  [wasControlled |-> sw.wasControlled,
              switchDeps |-> sw.deps,
              readOnlyDeps |-> ro.deps,
              warnings |-> sw.logged \o ro.logged,
              thrown |-> (sw.logged \o ro.logged) # <<>>]
    ELSE [wasControlled |-> h.wasControlled,
          switchDeps |-> h.switchDeps,
          readOnlyDeps |-> h.readOnlyDeps,
          warnings |-> <<>>,
          thrown |-> FALSE]

DiagnosticsBlock(h, p, env) ==
    IF env # "production"
    THEN LET sw == useControlledSwitchWarning(h, p.on)
             ro == useReadOnlyWarning(h, p.on, "on", p.onChange, p.readOnly)
         IN  [wasControlled |-> sw.wasControlled,
              switchDeps |-> sw.deps,
              readOnlyDeps |-> ro.deps,
              warnings |-> sw.logged \o ro.logged,
              thrown |-> FALSE]
    ELSE [wasControlled |-> h.wasControlled,
          switchDeps |-> h.switchDeps,
          readOnlyDeps |-> h.readOnlyDeps,
          warnings |-> <<>>,
          thrown |-> FALSE]

----------------------------------------------------------------------------
\* The hook instance

\* An instance that has not rendered yet.
Unmounted ==
    [mounted |-> FALSE,
     initialState |-> [on |-> "undefined"],
     state |-> [on |-> "undefined"],
     queue |-> <<>>,
     committed |-> <<>>,
     controlledOn |-> "undefined",
     hasOnChange |-> FALSE,
     readOnly |-> FALSE,
     onIsControlled |-> FALSE,
     on |-> "undefined",
     wasControlled |-> FALSE,
     switchDeps |-> <<FALSE, FALSE>>,
     readOnlyDeps |-> <<FALSE, FALSE, FALSE, "on">>,
     warnings |-> <<>>,
     onChangeCalls |-> <<>>,
     trace |-> <<>>,
     error |-> FALSE]

\* The props a caller may pass to useToggle.  onChange is TRUE when a handler
\* is passed; readOnly is the prop after its default (line 84).
Props ==
    [initialOn : {"undefined", "true", "false"},
     on : JsVal,
     onChange : BOOLEAN,
     readOnly : BOOLEAN]

\* Line 86: React.useRef({on: initialOn}) keeps the object of the first render.
InitialStateRef_FromCurrentProp(h, p) == [on |-> Default(p.initialOn, "false")]

InitialStateRef(h, p) ==
    IF h.mounted THEN h.initialState ELSE [on |-> Default(p.initialOn, "false")]

\* Lines 90-94: `on` as the hook reports it.
ObservedOn_AlwaysInternal(controlledOn, state) == state.on

ObservedOn_StrictUndefined(controlledOn, state) ==
    IF controlledOn # "undefined" THEN controlledOn ELSE state.on

ObservedOn(controlledOn, state) ==
    IF NotNull(controlledOn) THEN controlledOn ELSE state.on

\* One render of useToggle (lines 76-104 and the closures of 115-161).
useToggle(h, p, env) ==
    LET initialState == InitialStateRef(h, p)
        reduced == IF h.mounted THEN ProcessUpdates(h.state, h.queue)
                   ELSE [thrown |-> FALSE, state |-> initialState]
        diag == DiagnosticsBlock(h, p, env)
    IN  [mounted |-> TRUE,
         initialState |-> initialState,
         state |-> reduced.state,
         queue |-> <<>>,
         committed |-> h.queue,
         controlledOn |-> p.on,
         hasOnChange |-> p.onChange,
         readOnly |-> p.readOnly,
         onIsControlled |-> NotNull(p.on),
         on |-> ObservedOn(p.on, reduced.state),
         wasControlled |-> diag.wasControlled,
         switchDeps |-> diag.switchDeps,
         readOnlyDeps |-> diag.readOnlyDeps,
         warnings |-> diag.warnings,
         onChangeCalls |-> <<>>,
         trace |-> <<>>,
         error |-> reduced.thrown \/ diag.thrown]

\* Lines 115-118, called from the closure of the last render.
dispatchWithOnChange_AlwaysDispatch(h, action) ==
    LET r == toggleReducer([h.state EXCEPT !.on = h.on], action)
    IN  [h EXCEPT
           !.queue = Append(@, action),
           !.onChangeCalls = IF h.hasOnChange /\ ~r.thrown
                             THEN Append(@, [state |-> r.state, action |-> action])
                             ELSE @,
           !.error = @ \/ (h.hasOnChange /\ r.thrown)]

dispatchWithOnChange_InternalState(h, action) ==
    LET r == toggleReducer(h.state, action)
    IN  [h EXCEPT
           !.queue = IF ~h.onIsControlled THEN Append(@, action) ELSE @,
           !.onChangeCalls = IF h.hasOnChange /\ ~r.thrown
                             THEN Append(@, [state |-> r.state, action |-> action])
                             ELSE @,
           !.error = @ \/ (h.hasOnChange /\ r.thrown)]

dispatchWithOnChange_NoOptionalCall(h, action) ==
    LET r == toggleReducer([h.state EXCEPT !.on = h.on], action)
    IN  [h EXCEPT
           !.queue = IF ~h.onIsControlled THEN Append(@, action) ELSE @,
           !.onChangeCalls = IF h.hasOnChange /\ ~r.thrown
                             THEN Append(@, [state |-> r.state, action |-> action])
                             ELSE @,
           !.error = @ \/ ~h.hasOnChange \/ r.thrown]

dispatchWithOnChange(h, action) ==
    LET r == toggleReducer([h.state EXCEPT !.on = h.on], action)
    IN  [h EXCEPT
           !.queue = IF ~h.onIsControlled THEN Append(@, action) ELSE @,
           !.onChangeCalls = IF h.hasOnChange /\ ~r.thrown
                             THEN Append(@, [state |-> r.state, action |-> action])
                             ELSE @,
           !.error = @ \/ (h.hasOnChange /\ r.thrown)]

\* Lines 136-138.
toggle(h) == dispatchWithOnChange(h, [type |-> actionTypes.toggle])

reset(h) ==
    dispatchWithOnChange(h, [type |-> actionTypes.reset, initialState |-> h.initialState])

\* A call of one of the functions the hook or its caller supplies.  The
\* caller's onClick is the caller's own code: it does not touch the hook.
Invoke(h, fn) ==
    LET called == [h EXCEPT !.trace = Append(@, fn)]
    IN  CASE fn = "toggle" -> toggle(called)
          [] fn = "reset" -> reset(called)
          [] OTHER -> called

RECURSIVE InvokeAll(_, _)
InvokeAll(h, fns) ==
    IF fns = <<>> THEN h ELSE InvokeAll(Invoke(h, Head(fns)), Tail(fns))

\* The start of a call from outside the hook: what the previous call or
\* render left to be read is cleared.
Entered(h) == [h EXCEPT !.onChangeCalls = <<>>, !.trace = <<>>, !.error = FALSE]

\* Lines 140-153: the onClick of the props the getters return.
getTogglerProps(h, onClick) == InvokeAll(Entered(h), callAll(<<onClick, "toggle">>))

getResetterProps(h, onClick) == InvokeAll(Entered(h), callAll(<<onClick, "reset">>))

----------------------------------------------------------------------------
\* History, kept for the statements below only.
\*   toggles         the number of toggle() calls of a run that mounted
\*                   self-owned with {on: false}, stayed self-owned, and made
\*                   nothing but toggle() calls, each rendered before the
\*                   next; -1 once the run is not of that kind
\*   firstInitialOn  the initial value given at the first render
\*   initialOnVaried a later render was given another initial value
\*   firstControlled the first render was given an external value
\*   modeChanged     a render saw another mode than the render before it
\*   loggedU2C       some render logged the uncontrolled-to-controlled advisory
\*   loggedC2U       some render logged the controlled-to-uncontrolled advisory

NoHist ==
    [toggles |-> -1, firstInitialOn |-> "undefined", initialOnVaried |-> FALSE,
     firstControlled |-> FALSE, modeChanged |-> FALSE,
     loggedU2C |-> FALSE, loggedC2U |-> FALSE]

Logged(h, message) == \E i \in 1..Len(h.warnings) : h.warnings[i] = message

NoCall == [called |-> FALSE]

\* No owner component and no App: the hook is used on its own.
NoOwner == [phase |-> "none"]

NoApp == [phase |-> "none"]

Init ==
    /\ inst = [e \in Env |-> Unmounted]
    /\ lastOp = [kind |-> "none"]
    /\ hist = NoHist
    /\ rcall = NoCall
    /\ owner = NoOwner
    /\ app = NoApp

Mounted == inst["development"].mounted

\* The first render of the hook.
Mount(p) ==
    /\ ~Mounted
    /\ inst' = [e \in Env |-> useToggle(inst[e], p, e)]
    /\ lastOp' = [kind |-> "mount"]
    /\ hist' = [toggles |-> IF ~NotNull(p.on) /\ Default(p.initialOn, "false") = "false"
                            THEN 0 ELSE -1,
                firstInitialOn |-> Default(p.initialOn, "false"),
                initialOnVaried |-> FALSE,
                firstControlled |-> NotNull(p.on),
                modeChanged |-> FALSE,
                loggedU2C |-> Logged(inst'["development"], UncontrolledToControlled),
                loggedC2U |-> Logged(inst'["development"], ControlledToUncontrolled)]
    /\ UNCHANGED <<rcall, owner, app>>

\* A later render, with the props the parent passes then.
Rerender(p) ==
    /\ Mounted
    /\ inst' = [e \in Env |-> useToggle(inst[e], p, e)]
    /\ lastOp' = [kind |-> "render"]
    /\ hist' = [hist EXCEPT
                  !.toggles = IF NotNull(p.on) THEN -1 ELSE @,
                  !.initialOnVaried = @ \/ Default(p.initialOn, "false") # hist.firstInitialOn,
                  !.modeChanged = @ \/ NotNull(p.on) # inst["development"].onIsControlled,
                  !.loggedU2C = @ \/ Logged(inst'["development"], UncontrolledToControlled),
                  !.loggedC2U = @ \/ Logged(inst'["development"], ControlledToUncontrolled)]
    /\ UNCHANGED <<rcall, owner, app>>

CanCall ==
    /\ Mounted
    /\ Len(inst["development"].queue) < MaxQueue
    /\ hist.toggles < MaxToggles

CountedToggle ==
    IF hist.toggles >= 0 /\ inst["development"].queue = <<>>
    THEN hist.toggles + 1 ELSE -1

\* toggle(), as returned by the hook.
CallToggle ==
    /\ CanCall
    /\ inst' = [e \in Env |-> InvokeAll(Entered(inst[e]), <<"toggle">>)]
    /\ lastOp' = [kind |-> "toggle"]
    /\ hist' = [hist EXCEPT !.toggles = CountedToggle]
    /\ UNCHANGED <<rcall, owner, app>>

\* reset(), as returned by the hook.
CallReset ==
    /\ CanCall
    /\ inst' = [e \in Env |-> InvokeAll(Entered(inst[e]), <<"reset">>)]
    /\ lastOp' = [kind |-> "reset"]
    /\ hist' = [hist EXCEPT !.toggles = -1]
    /\ UNCHANGED <<rcall, owner, app>>

\* A click on an element given getTogglerProps({onClick}).
ClickToggler(onClick) ==
    /\ CanCall
    /\ inst' = [e \in Env |-> getTogglerProps(inst[e], onClick)]
    /\ lastOp' = [kind |-> "clickToggler", onClick |-> onClick]
    /\ hist' = [hist EXCEPT !.toggles = CountedToggle]
    /\ UNCHANGED <<rcall, owner, app>>

\* A click on an element given getResetterProps({onClick}).
ClickResetter(onClick) ==
    /\ CanCall
    /\ inst' = [e \in Env |-> getResetterProps(inst[e], onClick)]
    /\ lastOp' = [kind |-> "clickResetter", onClick |-> onClick]
    /\ hist' = [hist EXCEPT !.toggles = -1]
    /\ UNCHANGED <<rcall, owner, app>>

OnClickProp == {"undefined", "onClick"}

Next ==
    \/ \E p \in Props : Mount(p)
    \/ \E p \in Props : Rerender(p)
    \/ CallToggle
    \/ CallReset
    \/ \E onClick \in OnClickProp : ClickToggler(onClick)
    \/ \E onClick \in OnClickProp : ClickResetter(onClick)

Spec == Init /\ [][Next]_vars

----------------------------------------------------------------------------
\* Direct calls of the reducer, on any state and any action.

ActionTypeInputs == {"toggle", "reset", "undefined", "TOGGLE", "set", "other"}

StateInputs == [on : JsVal]

\* {type} and {type, initialState}; a reset always carries its payload.
ActionInputs ==
    {[type |-> t] : t \in ActionTypeInputs \ {actionTypes.reset}}
      \cup [type : ActionTypeInputs, initialState : StateInputs]

ReducerInit ==
    /\ inst = [e \in Env |-> Unmounted]
    /\ lastOp = [kind |-> "none"]
    /\ hist = NoHist
    /\ owner = NoOwner
    /\ app = NoApp
    /\ \E s \in StateInputs, a \in ActionInputs :
          rcall = [called |-> FALSE, before |-> s, state |-> s, action |-> a]

\* toggleReducer(state, action): the reducer reads `state` and assigns nothing
\* to it; what it returns or throws is the call's result.
CallReducer ==
    /\ ~rcall.called
    /\ rcall' = [called |-> TRUE, before |-> rcall.before, state |-> rcall.state,
                 action |-> rcall.action,
                 result |-> toggleReducer(rcall.state, rcall.action)]
    /\ UNCHANGED <<inst, lastOp, hist, owner, app>>

ReducerNext == CallReducer

SpecReducer == ReducerInit /\ [][ReducerNext]_vars

----------------------------------------------------------------------------
\* An owner that applies every suggested change, next to a self-owned
\* instance given the same initial value and the same intents.
\*   owner.ext         the value the owner passes as `on`
\*   owner.controlled  the instance the owner controls
\*   owner.self        the self-owned instance
\*   owner.phase       "rendered" after a render, "called" after an intent
\*   owner.steps       the number of intents so far

\* The owner's onChange: it sets its value to the `on` of the state reported
\* (line 182, setBothOn(state.on)); the value is passed as `on` from the next
\* render.
OwnerApply(ext, onChangeCalls) ==
    IF onChangeCalls = <<>> THEN ext
    ELSE onChangeCalls[Len(onChangeCalls)].state.on

OwnerProps(o, ext) ==
    [initialOn |-> o.initialOn, on |-> ext, onChange |-> TRUE, readOnly |-> o.readOnly]

SelfProps(o) ==
    [initialOn |-> o.initialOn, on |-> "undefined", onChange |-> o.selfOnChange,
     readOnly |-> o.readOnly]

OwnerInit ==
    /\ inst = [e \in Env |-> Unmounted]
    /\ lastOp = [kind |-> "none"]
    /\ hist = NoHist
    /\ rcall = NoCall
    /\ app = NoApp
    /\ \E initialOn \in {"undefined", "true", "false"}, env \in Env,
          readOnly \in BOOLEAN, selfOnChange \in BOOLEAN :
          LET o == [initialOn |-> initialOn, env |-> env, readOnly |-> readOnly,
                    selfOnChange |-> selfOnChange]
              ext == Default(initialOn, "false")
          IN  owner = [initialOn |-> initialOn, env |-> env, readOnly |-> readOnly,
                       selfOnChange |-> selfOnChange,
                       ext |-> ext,
                       controlled |-> useToggle(Unmounted, OwnerProps(o, ext), env),
                       self |-> useToggle(Unmounted, SelfProps(o), env),
                       phase |-> "rendered",
                       steps |-> 0,
                       last |-> "mount"]

\* The same intent given to both instances.
OwnerIntent(fn) ==
    /\ owner.phase = "rendered"
    /\ owner.steps < MaxOwnerSteps
    /\ owner' = [owner EXCEPT
                   !.controlled = InvokeAll(Entered(@), <<fn>>),
                   !.self = InvokeAll(Entered(@), <<fn>>),
                   !.phase = "called",
                   !.steps = @ + 1,
                   !.last = fn]
    /\ UNCHANGED <<inst, lastOp, hist, rcall, app>>

\* The owner applies what was reported, and both instances render.
OwnerRender ==
    /\ owner.phase = "called"
    /\ LET ext == OwnerApply(owner.ext, owner.controlled.onChangeCalls)
       IN  owner' = [owner EXCEPT
                       !.ext = ext,
                       !.controlled = useToggle(@, OwnerProps(owner, ext), owner.env),
                       !.self = useToggle(@, SelfProps(owner), owner.env),
                       !.phase = "rendered"]
    /\ UNCHANGED <<inst, lastOp, hist, rcall, app>>

OwnerNext ==
    \/ \E fn \in {"toggle", "reset"} : OwnerIntent(fn)
    \/ OwnerRender

SpecOwner == OwnerInit /\ [][OwnerNext]_vars

----------------------------------------------------------------------------
\* The demo App (lines 164-217): two Toggles controlled by bothOn, a click
\* count, a Reset button and one self-owned Toggle.
\*   app.bothOn, app.timesClicked   the App's state as of its last render
\*   app.pendingBothOn              values given to setBothOn since then
\*   app.pendingTimesClicked        updates given to setTimesClicked since then
\*   app.toggles                    the hook instances of the three Toggles
\*   app.phase                      "rendered" after a render, "clicked" after a click
\*   app.last                       the element clicked last

\* Lines 164-172: Toggle passes on, onChange and readOnly to useToggle; it
\* gives no initialOn, and the App gives no readOnly.
Toggle(h, controlledOn, onChange, env) ==
    useToggle(h, [initialOn |-> "undefined", on |-> controlledOn,
                  onChange |-> onChange, readOnly |-> FALSE], env)

\* Lines 178-184.
handleToggleChange_NoLimit(a, state, action) ==
    [a EXCEPT !.pendingBothOn = Append(@, state.on),
              !.pendingTimesClicked = Append(@, "increment")]

handleToggleChange(a, state, action) ==
    IF action.type = actionTypes.toggle /\ a.timesClicked > ClickLimit
    THEN a
    ELSE [a EXCEPT !.pendingBothOn = Append(@, state.on),
                   !.pendingTimesClicked = Append(@, "increment")]

\* Lines 186-189.
handleResetClick(a) ==
    [a EXCEPT !.pendingBothOn = Append(@, "false"),
              !.pendingTimesClicked = Append(@, "zero")]

\* React.useState: a value replaces the state, an updater is applied to it,
\* in the order given, at the next render.
RECURSIVE ApplyTimesClicked(_, _)
ApplyTimesClicked(c, updates) ==
    IF updates = <<>> THEN c
    ELSE ApplyTimesClicked(IF Head(updates) = "zero" THEN 0 ELSE c + 1, Tail(updates))

ApplyBothOn(v, values) == IF values = <<>> THEN v ELSE values[Len(values)]

\* The onChange calls of one click, handed to handleToggleChange in order.
RECURSIVE NotifyApp(_, _)
NotifyApp(a, onChangeCalls) ==
    IF onChangeCalls = <<>> THEN a
    ELSE NotifyApp(handleToggleChange(a, Head(onChangeCalls).state, Head(onChangeCalls).action),
                   Tail(onChangeCalls))

\* Lines 191-216: one render of App and of its three Toggles.
RenderApp(a) ==
    LET bothOn == ApplyBothOn(a.bothOn, a.pendingBothOn)
        timesClicked == ApplyTimesClicked(a.timesClicked, a.pendingTimesClicked)
    IN  [a EXCEPT
           !.bothOn = bothOn,
           !.timesClicked = timesClicked,
           !.pendingBothOn = <<>>,
           !.pendingTimesClicked = <<>>,
           !.toggles = <<Toggle(a.toggles[1], bothOn, TRUE, a.env),
                         Toggle(a.toggles[2], bothOn, TRUE, a.env),
                         Toggle(a.toggles[3], "undefined", TRUE, a.env)>>,
           !.phase = "rendered"]

AppInit ==
    /\ inst = [e \in Env |-> Unmounted]
    /\ lastOp = [kind |-> "none"]
    /\ hist = NoHist
    /\ rcall = NoCall
    /\ owner = NoOwner
    /\ \E env \in Env :
          app = RenderApp([env |-> env, bothOn |-> "false", timesClicked |-> 0,
                           pendingBothOn |-> <<>>, pendingTimesClicked |-> <<>>,
                           toggles |-> <<Unmounted, Unmounted, Unmounted>>,
                           phase |-> "mounting", last |-> [element |-> "none", index |-> 0]])

\* A click on the Switch of one of the two controlled Toggles.
ClickControlledToggle(i) ==
    /\ app.phase = "rendered"
    /\ LET h == getTogglerProps(app.toggles[i], "undefined")
           a == [app EXCEPT !.toggles[i] = h, !.phase = "clicked", !.last = [element |-> "toggle", index |-> i]]
       IN  app' = NotifyApp(a, h.onChangeCalls)
    /\ UNCHANGED <<inst, lastOp, hist, rcall, owner>>

\* A click on the Switch of the self-owned Toggle; its onChange logs to the
\* console (lines 210-212).
ClickUncontrolledToggle ==
    /\ app.phase = "rendered"
    /\ app' = [app EXCEPT !.toggles[3] = getTogglerProps(@, "undefined"),
                          !.phase = "clicked", !.last = [element |-> "toggle", index |-> 3]]
    /\ UNCHANGED <<inst, lastOp, hist, rcall, owner>>

\* A click on the Reset button (line 205).
ClickResetButton ==
    /\ app.phase = "rendered"
    /\ app' = handleResetClick([app EXCEPT !.phase = "clicked", !.last = [element |-> "reset", index |-> 0]])
    /\ UNCHANGED <<inst, lastOp, hist, rcall, owner>>

\* The render that follows a click.
AppRender ==
    /\ app.phase = "clicked"
    /\ app' = RenderApp(app)
    /\ UNCHANGED <<inst, lastOp, hist, rcall, owner>>

AppNext ==
    \/ \E i \in {1, 2} : ClickControlledToggle(i)
    \/ ClickUncontrolledToggle
    \/ ClickResetButton
    \/ AppRender

SpecApp == AppInit /\ [][AppNext]_vars

----------------------------------------------------------------------------
\* Properties

Dev == inst["development"]

CallKinds == {"toggle", "reset", "clickToggler", "clickResetter"}

ToggleKinds == {"toggle", "clickToggler"}

ResetKinds == {"reset", "clickResetter"}

Count(seq, x) == Cardinality({i \in 1..Len(seq) : seq[i] = x})

\* C1: in a run that mounted self-owned with {on: false} and made N toggle()
\* calls, each rendered before the next, the observed `on` is true exactly
\* when N is odd.
C1_ToggleParity ==
    \A e \in Env :
        (hist.toggles >= 0 /\ inst[e].queue = <<>>)
            => /\ ~inst[e].onIsControlled
               /\ inst[e].on = (IF hist.toggles % 2 = 1 THEN "true" ELSE "false")

C1_ThreeToggles ==
    /\ hist.toggles = 3
    /\ lastOp.kind = "render"
    /\ Dev.queue = <<>>
    /\ Dev.on = "true"

\* C2: while the instance is externally owned, `on` is the external value, no
\* update is pending, and no call (nor the render that follows it) changes the
\* internal state.
C2_ControlledObserved ==
    \A e \in Env :
        (inst[e].mounted /\ inst[e].onIsControlled)
            => /\ inst[e].on = inst[e].controlledOn
               /\ inst[e].queue = <<>>

C2_ControlledFrameStep ==
    \A e \in Env :
        (inst[e].mounted /\ inst[e].onIsControlled /\ inst[e]'.onIsControlled)
            => inst[e]'.state = inst[e].state

C2_ControlledFrame == []C2_ControlledObserved /\ [][C2_ControlledFrameStep]_vars

C2_ControlledResetIgnored ==
    /\ lastOp.kind = "reset"
    /\ Dev.onIsControlled
    /\ Dev.controlledOn = "true"
    /\ Dev.state.on = "false"
    /\ Dev.initialState.on = "true"
    /\ Dev.onChangeCalls # <<>>

\* C3: a toggle() or reset() made while an observer is registered calls the
\* observer exactly once, with the next state (the negation of the observed
\* `on` for toggle, the initial state of the first render for reset) and the
\* intent, in both modes.
C3_ExpectedCall(h) ==
    IF lastOp'.kind \in ToggleKinds
    THEN [state |-> [on |-> IF h.on = "true" THEN "false" ELSE "true"],
          action |-> [type |-> "toggle"]]
    ELSE [state |-> [on |-> hist.firstInitialOn],
          action |-> [type |-> "reset", initialState |-> [on |-> hist.firstInitialOn]]]

C3_ObserverStep ==
    \A e \in Env :
        (lastOp'.kind \in CallKinds /\ inst[e].hasOnChange)
            => inst[e]'.onChangeCalls = <<C3_ExpectedCall(inst[e])>>

C3_ObserverCalledOnce == [][C3_ObserverStep]_vars

C3_ControlledToggleReported ==
    /\ lastOp.kind = "clickToggler"
    /\ Dev.onIsControlled
    /\ Dev.on = "true"
    /\ Dev.state.on = "true"
    /\ Dev.onChangeCalls = <<[state |-> [on |-> "false"], action |-> [type |-> "toggle"]]>>

\* C4: in self-owned mode, a render whose pending updates end with a reset
\* observes the initial value given to the first render, whatever initial
\* value later renders were given.
C4_ResetRestoresInitial ==
    \A e \in Env :
        (/\ lastOp.kind = "render"
         /\ inst[e].committed # <<>>
         /\ inst[e].committed[Len(inst[e].committed)].type = "reset"
         /\ ~inst[e].onIsControlled)
            => inst[e].on = hist.firstInitialOn

C4_ResetAfterToggle ==
    /\ lastOp.kind = "render"
    /\ hist.initialOnVaried
    /\ hist.firstInitialOn = "true"
    /\ ~Dev.onIsControlled
    /\ Len(Dev.committed) = 2
    /\ Dev.committed[1].type = "toggle"
    /\ Dev.committed[2].type = "reset"
    /\ Dev.on = "true"

\* C5: (as claimed) the missing-handler advisory is logged only when the
\* instance is externally owned, has no observer and is not read-only, and
\* on the first render it is logged whenever that is so.
C5_MissingHandlerAdvisory ==
    LET missing == Dev.onIsControlled /\ ~Dev.hasOnChange /\ ~Dev.readOnly
        logged == Count(Dev.warnings, ReadOnlyField) > 0
    IN  /\ (Dev.mounted /\ logged) => missing
        /\ (lastOp.kind = "mount" /\ missing) => logged

\* C6: a render logs a mode-change advisory exactly once when it finds the
\* instance in the mode opposite to that of its first render and the render
\* before it did not, and not otherwise; as long as the mode never changed,
\* none is logged.
C6_ModeAdvisoryStep ==
    lastOp'.kind = "render" =>
        LET before == Dev.onIsControlled
            now == Dev'.onIsControlled
        IN  /\ Count(Dev'.warnings, UncontrolledToControlled)
                 = IF ~hist.firstControlled /\ ~before /\ now THEN 1 ELSE 0
            /\ Count(Dev'.warnings, ControlledToUncontrolled)
                 = IF hist.firstControlled /\ before /\ ~now THEN 1 ELSE 0

C6_NoAdvisoryWhileModeConstant ==
    ~hist.modeChanged =>
        /\ Count(Dev.warnings, UncontrolledToControlled) = 0
        /\ Count(Dev.warnings, ControlledToUncontrolled) = 0

C6_ModeAdvisory == []C6_NoAdvisoryWhileModeConstant /\ [][C6_ModeAdvisoryStep]_vars

C6_SecondSwitchLogged ==
    /\ lastOp.kind = "render"
    /\ hist.firstControlled
    /\ hist.modeChanged
    /\ ~Dev.onIsControlled
    /\ Count(Dev.warnings, ControlledToUncontrolled) = 1
    /\ Count(Dev.warnings, UncontrolledToControlled) = 0

\* C7: the reducer, given an action whose type is neither 'toggle' nor
\* 'reset', throws, returns no state, and leaves the state it was given as
\* it was.
C7_UnsupportedTypeThrows ==
    (rcall.called /\ rcall.action.type \notin {"toggle", "reset"})
        => /\ rcall.result.thrown
           /\ "state" \notin DOMAIN rcall.result
           /\ rcall.state = rcall.before

C7_UnsupportedTypeCalled ==
    /\ rcall.called
    /\ rcall.action.type = "other"
    /\ rcall.before.on = "true"
    /\ rcall.result.thrown

\* C8: a toggle() or reset() made in externally-owned mode with no observer
\* registered raises no error, calls nothing, queues no update and leaves the
\* internal state and the observed `on` as they were.
C8_NoObserverStep ==
    \A e \in Env :
        (lastOp'.kind \in CallKinds /\ inst[e].onIsControlled /\ ~inst[e].hasOnChange)
            => /\ ~inst[e]'.error
               /\ inst[e]'.onChangeCalls = <<>>
               /\ inst[e]'.queue = <<>>
               /\ inst[e]'.state = inst[e].state
               /\ inst[e]'.on = inst[e].on

C8_NoObserverNoEffect == [][C8_NoObserverStep]_vars

C8_NoObserverToggle ==
    /\ lastOp.kind = "toggle"
    /\ Dev.onIsControlled
    /\ ~Dev.hasOnChange
    /\ ~Dev.error
    /\ Dev.onChangeCalls = <<>>

\* C9: the instance with diagnostics and the instance without, given the same
\* props and the same calls, agree on the observed `on`, the internal state,
\* the pending and committed updates, the observer's invocations and on
\* whether the last operation failed.
Behaviour(h) ==
    [mounted |-> h.mounted, on |-> h.on, onIsControlled |-> h.onIsControlled,
     state |-> h.state, initialState |-> h.initialState, queue |-> h.queue,
     committed |-> h.committed, onChangeCalls |-> h.onChangeCalls,
     trace |-> h.trace, error |-> h.error]

C9_DiagnosticsNoEffect ==
    Behaviour(inst["development"]) = Behaviour(inst["production"])

C9_AdvisoryLoggedThenCall ==
    /\ lastOp.kind = "toggle"
    /\ Count(Dev.warnings, UncontrolledToControlled) = 1
    /\ inst["production"].warnings = <<>>
    /\ Dev.onChangeCalls # <<>>

Boolean == {"true", "false"}

C11_OnAlwaysBoolean ==
    \A e \in Env :
        inst[e].mounted => /\ inst[e].state.on \in Boolean
                           /\ inst[e].on \in Boolean
                           /\ inst[e].initialState.on \in Boolean

C11_NullAfterSupplied ==
    /\ lastOp.kind = "render"
    /\ hist.firstControlled
    /\ hist.modeChanged
    /\ Dev.controlledOn = "null"
    /\ Dev.committed # <<>>
    /\ Dev.on = "true"

\* C12: an external value of false makes the instance externally owned (the
\* observed `on` is false whatever the internal state, and a call queues no
\* update); null and undefined both leave it self-owned (the observed `on` is
\* the internal state, and a call queues its update).
C12_ModeByPresence ==
    \A e \in Env :
        inst[e].mounted =>
            /\ inst[e].controlledOn = "false"
                 => /\ inst[e].on = "false"
                    /\ inst[e].queue = <<>>
            /\ inst[e].controlledOn \in {"null", "undefined"}
                 => /\ inst[e].on = inst[e].state.on
                    /\ lastOp.kind \in CallKinds
                         => /\ inst[e].queue # <<>>
                            /\ inst[e].queue[Len(inst[e].queue)].type
                                 = IF lastOp.kind \in ToggleKinds THEN "toggle" ELSE "reset"

C12_FalseIsControlled ==
    /\ lastOp.kind = "toggle"
    /\ Dev.controlledOn = "false"
    /\ Dev.state.on = "true"
    /\ Dev.on = "false"
    /\ Dev.queue = <<>>

\* C13: (as claimed) in self-owned mode the state the last call passed to the
\* observer is the internal state of the next render, also when several calls
\* were made from one render.
C13_ReportedIsCommittedStep ==
    \A e \in Env :
        (/\ lastOp'.kind = "render"
         /\ lastOp.kind \in CallKinds
         /\ ~inst[e].onIsControlled
         /\ ~inst[e]'.onIsControlled
         /\ inst[e].onChangeCalls # <<>>)
            => inst[e]'.state
                 = inst[e].onChangeCalls[Len(inst[e].onChangeCalls)].state

C13_ReportedIsCommitted == [][C13_ReportedIsCommittedStep]_vars

\* C14: in externally-owned mode toggle() reports the negation of the
\* external value and reset() the initial state of the first render, whatever
\* the internal state is.
C14_SuggestedFromExternal ==
    \A e \in Env :
        (lastOp.kind \in CallKinds /\ inst[e].onIsControlled /\ inst[e].hasOnChange)
            => /\ Len(inst[e].onChangeCalls) = 1
               /\ inst[e].onChangeCalls[1].state.on
                    = IF lastOp.kind \in ResetKinds THEN hist.firstInitialOn
                      ELSE IF inst[e].controlledOn = "true" THEN "false" ELSE "true"

C14_ExternalDiffersFromInternal ==
    /\ lastOp.kind = "toggle"
    /\ Dev.onIsControlled
    /\ Dev.controlledOn = "false"
    /\ Dev.state.on = "true"
    /\ Dev.onChangeCalls # <<>>
    /\ Dev.onChangeCalls[1].state.on = "true"

\* C16: the uncontrolled-to-controlled advisory is logged only by an instance
\* whose first render was self-owned, the controlled-to-uncontrolled advisory
\* only by one whose first render was externally owned; no instance ever logs
\* both.
C16_AdvisoryTiedToFirstMode ==
    /\ hist.loggedU2C => ~hist.firstControlled
    /\ hist.loggedC2U => hist.firstControlled
    /\ ~(hist.loggedU2C /\ hist.loggedC2U)
    /\ Logged(Dev, UncontrolledToControlled) => hist.loggedU2C
    /\ Logged(Dev, ControlledToUncontrolled) => hist.loggedC2U

C16_BackAndForth ==
    /\ lastOp.kind = "render"
    /\ hist.loggedU2C
    /\ ~Dev.onIsControlled
    /\ Dev.committed # <<>>
    /\ Dev.warnings = <<>>

\* C15: after every intent and the render that follows it, the instance whose
\* owner applies each suggested change and the self-owned instance given the
\* same initial value report the same `on`.
C15_OwnerEquivalent ==
    owner.phase = "rendered" =>
        /\ owner.controlled.onIsControlled
        /\ ~owner.self.onIsControlled
        /\ owner.controlled.on = owner.self.on

C15_ResetAfterToggles ==
    /\ owner.phase = "rendered"
    /\ owner.steps = 3
    /\ owner.last = "reset"
    /\ owner.controlled.on = "true"
    /\ owner.self.on = "true"
    /\ owner.self.committed # <<>>
    /\ owner.controlled.committed = <<>>

\* C17: timesClicked stays between 0 and 5; once it exceeds 4, bothOn and
\* timesClicked change only by the Reset button, which sets them to false
\* and 0.
C17_ClickCountInRange == app.timesClicked >= 0 /\ app.timesClicked <= 5

C17_LimitStep ==
    (/\ app.timesClicked > 4
     /\ \/ app'.timesClicked # app.timesClicked
        \/ app'.bothOn # app.bothOn)
        => /\ app.last = [element |-> "reset", index |-> 0]
           /\ app'.timesClicked = 0
           /\ app'.bothOn = "false"

C17_ClickLimit == []C17_ClickCountInRange /\ [][C17_LimitStep]_vars

C17_ToggleIgnoredAtLimit ==
    /\ app.phase = "clicked"
    /\ app.last = [element |-> "toggle", index |-> 2]
    /\ app.timesClicked = 5
    /\ app.bothOn = "true"
    /\ Len(app.toggles[2].onChangeCalls) = 1
    /\ app.pendingBothOn = <<>>
    /\ app.pendingTimesClicked = <<>>

\* C18: bothOn is true exactly when timesClicked is odd, and both controlled
\* Toggles show bothOn.
C18_BothOnIsParity ==
    /\ app.bothOn = (IF app.timesClicked % 2 = 1 THEN "true" ELSE "false")
    /\ app.toggles[1].on = app.bothOn
    /\ app.toggles[2].on = app.bothOn

C18_ThreeClicks ==
    /\ app.phase = "rendered"
    /\ app.last = [element |-> "toggle", index |-> 1]
    /\ app.timesClicked = 3
    /\ app.bothOn = "true"
    /\ app.toggles[2].on = "true"
    /\ app.toggles[2].state.on = "false"

====
